---- MODULE Spec2Model ----
(***************************************************************************)
(* Model of src/main.py: the crypto tracker.  main() runs a one-time       *)
(* health check and then monitor_and_retry(), which sets up the Google     *)
(* Sheets client and calls fetch_and_update_crypto_data(client) forever.   *)
(* One action per step of that control flow; every call to the provider    *)
(* or to the sheet is a step of its own, because the sheet is observable   *)
(* between two calls.                                                      *)
(***************************************************************************)
EXTENDS Integers, Sequences, FiniteSets, TLC

(***************************************************************************)
(* Bounds of the model.                                                    *)
(***************************************************************************)
\* longest provider response that is enumerated
MaxLen == 2
\* largest retry budget monitor_and_retry is called with in SpecRetries
MaxBudget == 12
\* longest snapshot of well-formed quotes that is enumerated in SpecCycle
MaxSnapshot == 6

(***************************************************************************)
(* Program constants.                                                      *)
(***************************************************************************)
\* def monitor_and_retry(max_retries=3)
default_max_retries == 3
\* wait_time = min(2 ** retries, 600)
BackoffCap == 600
\* time.sleep(60) of the RequestException handler
RequestErrorSleep == 60
\* time.sleep(300 + random.uniform(-30, 30))
SleepBase == 300
SleepJitter == 30
\* [:5] of top_5_by_market_cap
TopN == 5
\* sheet.update('A1:G51', rows): the range holds 51 rows
RawRangeRows == 51
\* sheet.update('I1:L20', analysis_data): the range holds 20 rows
SummaryRangeRows == 20
\* exit status of sys.exit(1)
ExitFailure == 1
\* exit status of an interpreter that ends on an unhandled KeyboardInterrupt
ExitSigint == 130

Min(a, b) == IF a < b THEN a ELSE b
Max(a, b) == IF a > b THEN a ELSE b

(***************************************************************************)
(* Provider data.  A quote is the JSON object of one coin; prices are in   *)
(* cents and 24h changes in hundredths of a percent, so that two decimal   *)
(* places are exact.  BadQuote lacks 'current_price'.  A quote whose JSON   *)
(* gives null for some keys names them in an extra field, nulls.           *)
(***************************************************************************)
RequiredKeys ==
    {"name", "symbol", "current_price", "market_cap", "total_volume",
     "price_change_percentage_24h"}

QuoteA ==
    [name |-> "Bitcoin", symbol |-> "btc", current_price |-> 300,
     market_cap |-> 7, total_volume |-> 4, price_change_percentage_24h |-> 150]
QuoteB ==
    [name |-> "Ethereum", symbol |-> "eth", current_price |-> 101,
     market_cap |-> 9, total_volume |-> 2, price_change_percentage_24h |-> -25]
BadQuote ==
    [name |-> "Broken", symbol |-> "brk",
     market_cap |-> 1, total_volume |-> 1, price_change_percentage_24h |-> 0]

\* same market cap as QuoteA
QuoteC ==
    [name |-> "Litecoin", symbol |-> "ltc", current_price |-> 55,
     market_cap |-> 7, total_volume |-> 3, price_change_percentage_24h |-> 10]
\* "name": null
NullNameQuote ==
    [name |-> "", symbol |-> "xrp", current_price |-> 20,
     market_cap |-> 3, total_volume |-> 1, price_change_percentage_24h |-> 5,
     nulls |-> {"name"}]
\* "current_price": null
NullPriceQuote ==
    [name |-> "Ripple", symbol |-> "xrp", current_price |-> 0,
     market_cap |-> 3, total_volume |-> 1, price_change_percentage_24h |-> 5,
     nulls |-> {"current_price"}]

Quotes == {QuoteA, QuoteB, BadQuote}

SeqsUpTo(S, n) == UNION {[1..k -> S] : k \in 0..n}

\* the bodies response.json() can return
Responses == SeqsUpTo(Quotes, MaxLen)

\* the keys of coin whose value is null
NullKeys(coin) == IF "nulls" \in DOMAIN coin THEN coin.nulls ELSE {}

\* the keys whose value the row calls .upper() on or formats with a number
\* format (lines 136-140): None raises there; coin['name'] is only copied
FormattedKeys == RequiredKeys \ {"name"}

\* the row of coin can be built: coin[...] succeeds on every key and no
\* formatted value is None
WellFormed(coin) ==
    /\ RequiredKeys \subseteq DOMAIN coin
    /\ NullKeys(coin) \cap FormattedKeys = {}

\* the provider's 50 quotes with the prices 1, 2, ..., 50 (in cents: 100 * i),
\* in its order of descending market cap
Snapshot50 ==
    [i \in 1..50 |->
        [name |-> "Bitcoin", symbol |-> "btc", current_price |-> 100 * i,
         market_cap |-> 100 - i, total_volume |-> 1,
         price_change_percentage_24h |-> 0]]

\* the responses of SpecCycle: every snapshot of up to MaxSnapshot
\* well-formed quotes, every response of up to MaxLen quotes of all shapes,
\* and the 50 quotes
CycleInputs ==
    SeqsUpTo({QuoteA, QuoteB, QuoteC}, MaxSnapshot)
        \cup SeqsUpTo({QuoteA, BadQuote, NullNameQuote, NullPriceQuote}, MaxLen)
        \cup {Snapshot50}

(***************************************************************************)
(* Cells.  Every cell is a record [t, v]: t is the text of the cell with   *)
(* the number left out, v the number it shows (0 when it shows none).      *)
(***************************************************************************)
Text(s) == [t |-> s, v |-> 0]
Num(label, n) == [t |-> label, v |-> n]

Upper(s) ==
    CASE s = "btc" -> "BTC"
      [] s = "eth" -> "ETH"
      [] s = "brk" -> "BRK"
      [] s = "ltc" -> "LTC"
      [] s = "xrp" -> "XRP"
      [] OTHER -> s

\* datetime.now(tz), to the second: an earlier and a later reading
Times == {1, 2}

\* the non-decreasing clock readings taken while n rows are built: the
\* first k rows carry the earlier reading, the others the later one
Stamps(n) ==
    LET earlier == CHOOSE t \in Times : \A u \in Times : t <= u
        later == CHOOSE t \in Times : \A u \in Times : t >= u
    IN  {[i \in 1..n |-> IF i <= k THEN earlier ELSE later] : k \in 0..n}

\* the cell of coin['name']: None is sent as null and leaves the cell empty
NameCell(coin) == IF "name" \in NullKeys(coin) THEN Text("") ELSE Text(coin.name)

\* the row built for one coin (lines 134-142)
Row(coin, stamp) ==
    << NameCell(coin),
       Text(Upper(coin.symbol)),
       Num("$.2f", coin.current_price),
       Num("$", coin.market_cap),
       Num("$", coin.total_volume),
       Num(".2f%", coin.price_change_percentage_24h),
       Num("%Y-%m-%d %H:%M:%S", stamp) >>

PrepareRows(data, ts) == [i \in 1..Len(data) |-> Row(data[i], ts[i])]

(***************************************************************************)
(* Analysis (lines 150-172).                                               *)
(***************************************************************************)
\* faulty variant: a merge that takes from b before the equals of a
MergeRightFirst(a, b) ==
    LET PosA(i) == i + Cardinality({j \in 1..Len(b) : b[j].market_cap >= a[i].market_cap})
        PosB(j) == j + Cardinality({i \in 1..Len(a) : a[i].market_cap > b[j].market_cap})
    IN  [k \in 1..(Len(a) + Len(b)) |->
            IF \E i \in 1..Len(a) : PosA(i) = k
            THEN a[CHOOSE i \in 1..Len(a) : PosA(i) = k]
            ELSE b[CHOOSE j \in 1..Len(b) : PosB(j) = k]]

\* two runs sorted by market cap descending, merged: a quote of a goes in
\* front of the quotes of b that are not greater, so equals keep their order
MergeByCap(a, b) ==
    LET PosA(i) == i + Cardinality({j \in 1..Len(b) : b[j].market_cap > a[i].market_cap})
        PosB(j) == j + Cardinality({i \in 1..Len(a) : a[i].market_cap >= b[j].market_cap})
    IN  [k \in 1..(Len(a) + Len(b)) |->
            IF \E i \in 1..Len(a) : PosA(i) = k
            THEN a[CHOOSE i \in 1..Len(a) : PosA(i) = k]
            ELSE b[CHOOSE j \in 1..Len(b) : PosB(j) = k]]

RECURSIVE SortedByCap(_)
\* sorted(data, key=lambda x: x['market_cap'], reverse=True): list.sort is a
\* stable merge sort
SortedByCap(data) ==
    IF Len(data) <= 1 THEN data
    ELSE LET h == Len(data) \div 2
         IN  MergeByCap(SortedByCap(SubSeq(data, 1, h)),
                        SortedByCap(SubSeq(data, h + 1, Len(data))))

top_5_by_market_cap(data) ==
    LET s == SortedByCap(data) IN SubSeq(s, 1, Min(TopN, Len(s)))

top_5_data(data) ==
    LET top == top_5_by_market_cap(data)
    IN  [i \in 1..Len(top) |->
            << NameCell(top[i]), Text(Upper(top[i].symbol)),
               Num("$.2f", top[i].current_price) >>]

RECURSIVE SumOf(_)
\* the exact sum of xs; the halves are added up apart, which in exact
\* arithmetic gives the sum the code computes
SumOf(xs) ==
    IF xs = <<>> THEN 0
    ELSE IF Len(xs) = 1 THEN xs[1]
    ELSE LET h == Len(xs) \div 2
         IN  SumOf(SubSeq(xs, 1, h)) + SumOf(SubSeq(xs, h + 1, Len(xs)))

prices(data) == [i \in 1..Len(data) |-> data[i].current_price]
price_changes(data) == [i \in 1..Len(data) |-> data[i].price_change_percentage_24h]

\* faulty variant: the middle of the range instead of the mean
MidRange(xs) ==
    [num |-> (CHOOSE m \in {xs[i] : i \in 1..Len(xs)} : \A i \in 1..Len(xs) : xs[i] <= m)
             + (CHOOSE m \in {xs[i] : i \in 1..Len(xs)} : \A i \in 1..Len(xs) : xs[i] >= m),
     den |-> 2]

\* statistics.mean: the exact quotient sum/count, kept as a fraction
Mean(xs) == [num |-> SumOf(xs), den |-> Len(xs)]

\* the fraction q rounded to an integer, ties to even (the ':.2f' of a value
\* counted in hundredths); q.num >= 0
Round2(q) ==
    LET f == q.num \div q.den
        r == q.num % q.den
    IN  IF 2 * r < q.den THEN f
        ELSE IF 2 * r > q.den THEN f + 1
        ELSE IF f % 2 = 0 THEN f ELSE f + 1

SeqMax(xs) == CHOOSE m \in {xs[i] : i \in 1..Len(xs)} : \A i \in 1..Len(xs) : xs[i] <= m
SeqMin(xs) == CHOOSE m \in {xs[i] : i \in 1..Len(xs)} : \A i \in 1..Len(xs) : xs[i] >= m

\* statistics.mean([]) raises StatisticsError (line 158)
AnalysisFails(data) == data = <<>>

\* faulty variant: the table of the top quotes in front of the labeled lines
AnalysisDataTableFirst(data) ==
    << << Text("Analysis Metrics") >> >>
    \o top_5_data(data)
    \o << << Num("Average Price: $.2f", Round2(Mean(prices(data)))) >>,
          << Num("Highest 24h Change: .2f%", SeqMax(price_changes(data))) >>,
          << Num("Lowest 24h Change: .2f%", SeqMin(price_changes(data))) >> >>

\* analysis_data of lines 164-172, for a non-empty data
AnalysisData(data) ==
    << << Text("Analysis Metrics") >>,
       << Num("Average Price: $.2f", Round2(Mean(prices(data)))) >>,
       << Num("Highest 24h Change: .2f%", SeqMax(price_changes(data))) >>,
       << Num("Lowest 24h Change: .2f%", SeqMin(price_changes(data))) >>,
       << Text("") >>,
       << Text("Top 5 Cryptocurrencies by Market Cap:") >> >>
    \o top_5_data(data)

(***************************************************************************)
(* The sheet.  A region is the sequence of its rows from the top; rows     *)
(* behind the last one are empty.                                          *)
(***************************************************************************)
EmptySheet == [raw |-> <<>>, summary |-> <<>>]

\* faulty variant: a clear() that empties nothing
ClearKeepsCells(sheet) == sheet

\* sheet.clear(): every cell of the worksheet is emptied
Clear(sheet) == EmptySheet

\* values.update on a range: the cells the values cover are overwritten, the
\* others keep what they hold
Overwrite(region, values) ==
    [i \in 1..Max(Len(region), Len(values)) |->
        IF i <= Len(values) THEN values[i] ELSE region[i]]

\* sheet.update('A1:G51', rows)
WriteRaw(sheet, rws) == [sheet EXCEPT !.raw = Overwrite(@, rws)]

\* sheet.update('I1:L20', analysis_data)
WriteSummary(sheet, analysis) == [sheet EXCEPT !.summary = Overwrite(@, analysis)]

\* the three sheet calls of one cycle, one after the other (lines 146-175)
Render(sheet, rws, analysis) == WriteSummary(WriteRaw(Clear(sheet), rws), analysis)

\* a sheet that holds the rows and the analysis of one cycle and nothing else
FullRender(rws, analysis) == [raw |-> rws, summary |-> analysis]

WellFormedData(d) == \A i \in 1..Len(d) : WellFormed(d[i])

\* the sheets a fully successful cycle can leave
RenderedSheets ==
    {FullRender(PrepareRows(d, ts), AnalysisData(d)) :
        d \in {x \in Responses : x # <<>> /\ WellFormedData(x)}, ts \in Stamps(MaxLen)}

(***************************************************************************)
(* Retry policy of monitor_and_retry (lines 196-218).                      *)
(***************************************************************************)
\* faulty variant: a loop that gives up after the first counted failure
ExitsAfterOneFailure(r, m) == r < 1

\* while retries < max_retries
LoopCondition(r, m) == r < m

\* faulty variant: the backoff without its cap
UncappedWait(r) == 2 ^ r

\* wait_time = min(2 ** retries, 600)
BackoffWait(r) == Min(2 ^ r, BackoffCap)

\* 300 + random.uniform(-30, 30): the two ends and the middle of the interval
SleepTimes == {SleepBase - SleepJitter, SleepBase, SleepBase + SleepJitter}

\* the ways a call to the sheet fails: gspread APIError for a rejected
\* credential (401/403), APIError for a quota or server error (429/5xx), and
\* the requests exception of a broken connection
SinkErrors == {"auth", "transient", "network"}

(***************************************************************************)
(* State.                                                                  *)
(***************************************************************************)
VARIABLES
    pc,             \* where the process is
    max_retries,    \* parameter of monitor_and_retry
    retries,        \* local of monitor_and_retry
    wait_time,      \* local of monitor_and_retry: the last backoff wait, 0 before the first
    sleep_for,      \* argument of the time.sleep being served, 0 when none is
    client,         \* "none" or "ok": the gspread client of monitor_and_retry
    data,           \* local of fetch_and_update_crypto_data
    rows,           \* local of fetch_and_update_crypto_data
    analysis_data,  \* local of fetch_and_update_crypto_data
    sheet,          \* the worksheet
    exit_code,      \* exit status of the process, -1 while it runs
    stopped,        \* a KeyboardInterrupt was delivered
    stopped_in,     \* history: where the process was when it was delivered, else "none"
    criticals,      \* the logger.critical messages written so far
    calls,          \* history: the kinds of outside calls made since main() began
    cycle_calls,    \* history: the sheet calls made in the current cycle
    outcome,        \* history: how the last cycle ended, "running" inside a cycle
    auth_failures,  \* history: cycles in a row ended by an "auth" sheet error
    prior_len,      \* history: raw rows the sheet held when the current cycle began
    client_fatal    \* history: a sheet call of the present client has raised "auth"

vars ==
    << pc, max_retries, retries, wait_time, sleep_for, client, data, rows,
       analysis_data, sheet, exit_code, stopped, criticals, calls, cycle_calls,
       outcome, auth_failures, prior_len, stopped_in, client_fatal >>

budget == << max_retries, retries, wait_time >>
locals == << data, rows, analysis_data >>
process == << exit_code, stopped, stopped_in >>
history == << calls, cycle_calls, outcome, auth_failures, prior_len, client_fatal >>

Init ==
    /\ pc = "health"
    /\ max_retries = default_max_retries
    /\ retries = 0
    /\ wait_time = 0
    /\ sleep_for = 0
    /\ client = "none"
    /\ data = <<>>
    /\ rows = <<>>
    /\ analysis_data = <<>>
    /\ sheet \in RenderedSheets
    /\ exit_code = -1
    /\ stopped = FALSE
    /\ stopped_in = "none"
    /\ criticals = {}
    /\ calls = {}
    /\ cycle_calls = {}
    /\ outcome = "none"
    /\ auth_failures = 0
    /\ prior_len = 0
    /\ client_fatal = FALSE

(***************************************************************************)
(* main() and health_check() (lines 220-248).                              *)
(***************************************************************************)
\* health_check() returns True: main goes on to monitor_and_retry()
HealthCheckPass ==
    /\ pc = "health"
    /\ pc' = "monitor"
    /\ UNCHANGED << budget, sleep_for, client, locals, sheet, process, criticals, history >>

\* faulty variant: main logs the failed health check and goes on
HealthCheckFailStartsLoop ==
    /\ pc = "health"
    /\ criticals' = criticals \cup {"preflight"}
    /\ pc' = "monitor"
    /\ UNCHANGED << budget, sleep_for, client, locals, sheet, process, history >>

\* the probe or the credential validation raises: health_check() returns
\* False, main logs critical and calls sys.exit(1)
HealthCheckFail ==
    /\ pc = "health"
    /\ criticals' = criticals \cup {"preflight"}
    /\ exit_code' = ExitFailure
    /\ pc' = "exited"
    /\ UNCHANGED << budget, sleep_for, client, locals, sheet, stopped, stopped_in, history >>

(***************************************************************************)
(* monitor_and_retry() (lines 192-218).                                    *)
(***************************************************************************)
\* a cycle begins: the history of the cycle before it is dropped
BeginCycle ==
    /\ cycle_calls' = {}
    /\ outcome' = "running"
    /\ prior_len' = Len(sheet.raw)
    /\ pc' = "fetch"

\* the loop test passes and setup_google_sheets_client() returns a client:
\* the inner loop is entered
SetupClient ==
    /\ pc = "monitor"
    /\ LoopCondition(retries, max_retries)
    /\ client' = "ok"
    /\ calls' = calls \cup {"setup"}
    /\ client_fatal' = FALSE
    /\ BeginCycle
    /\ UNCHANGED << budget, sleep_for, locals, sheet, process, criticals, auth_failures >>

\* the loop test passes and setup_google_sheets_client() raises: it logs
\* critical, and the handler of lines 208-215 counts the failure and sleeps
SetupFails ==
    /\ pc = "monitor"
    /\ LoopCondition(retries, max_retries)
    /\ criticals' = criticals \cup {"setup"}
    /\ calls' = calls \cup {"setup"}
    /\ retries' = retries + 1
    /\ wait_time' = BackoffWait(retries')
    /\ sleep_for' = wait_time'
    /\ pc' = "backoff"
    /\ UNCHANGED << max_retries, client, locals, sheet, process,
                    cycle_calls, outcome, auth_failures, prior_len, client_fatal >>

\* time.sleep(wait_time) returns: back to the loop test
BackoffDone ==
    /\ pc = "backoff"
    /\ sleep_for' = 0
    /\ pc' = "monitor"
    /\ UNCHANGED << budget, client, locals, sheet, process, criticals, history >>

\* the loop test fails: lines 217-218
MaxRetriesExceeded ==
    /\ pc = "monitor"
    /\ ~LoopCondition(retries, max_retries)
    /\ criticals' = criticals \cup {"max_retries"}
    /\ exit_code' = ExitFailure
    /\ pc' = "exited"
    /\ UNCHANGED << budget, sleep_for, client, locals, sheet, stopped, stopped_in, history >>

\* faulty variant: the inner loop goes on only after a cycle that succeeded
SleepDoneAfterSuccessOnly ==
    /\ pc = "sleeping"
    /\ outcome = "ok"
    /\ sleep_for' = 0
    /\ BeginCycle
    /\ UNCHANGED << budget, client, locals, sheet, process, criticals, calls, auth_failures,
                    client_fatal >>

\* time.sleep(300 + random.uniform(-30, 30)) returns: the next cycle begins
SleepDone ==
    /\ pc = "sleeping"
    /\ sleep_for' = 0
    /\ BeginCycle
    /\ UNCHANGED << budget, client, locals, sheet, process, criticals, calls, auth_failures,
                    client_fatal >>

(***************************************************************************)
(* fetch_and_update_crypto_data(client) (lines 111-190).                   *)
(***************************************************************************)
\* the function returns to line 206 of the caller, which sleeps
Return(how) ==
    /\ outcome' = how
    /\ data' = <<>>
    /\ rows' = <<>>
    /\ analysis_data' = <<>>
    /\ sleep_for' \in SleepTimes
    /\ pc' = "sleeping"

\* except requests.RequestException: log an error and time.sleep(60)
RequestExceptionHandler(how) ==
    /\ outcome' = how
    /\ data' = <<>>
    /\ rows' = <<>>
    /\ analysis_data' = <<>>
    /\ sleep_for' = RequestErrorSleep
    /\ pc' = "req_wait"

\* except gspread.exceptions.APIError: log an error
APIErrorHandler(how) == Return(how)

\* except Exception: log critical
ExceptionHandler(how) ==
    /\ criticals' = criticals \cup {"unexpected"}
    /\ Return(how)

\* lines 123-125 succeed
FetchOk ==
    /\ pc = "fetch"
    /\ \E d \in Responses : data' = d
    /\ calls' = calls \cup {"fetch"}
    /\ pc' = "open"
    /\ UNCHANGED << budget, sleep_for, client, rows, analysis_data, sheet, process,
                    criticals, cycle_calls, outcome, auth_failures, prior_len, client_fatal >>

\* faulty variant: the failed fetch is noted and the sheet is opened all the same
FetchRequestErrorOpensSheet ==
    /\ pc = "fetch"
    /\ calls' = calls \cup {"fetch"}
    /\ outcome' = "source_error"
    /\ pc' = "open"
    /\ UNCHANGED << budget, sleep_for, client, locals, sheet, process,
                    criticals, cycle_calls, auth_failures, prior_len, client_fatal >>

\* requests.get or raise_for_status raises a RequestException; so does
\* response.json() with requests 2.27 or later
FetchRequestError ==
    /\ pc = "fetch"
    /\ calls' = calls \cup {"fetch"}
    /\ auth_failures' = 0
    /\ RequestExceptionHandler("source_error")
    /\ UNCHANGED << budget, client, sheet, process, criticals, cycle_calls, prior_len, client_fatal >>

\* response.json() raises ValueError (requests before 2.27)
FetchValueError ==
    /\ pc = "fetch"
    /\ calls' = calls \cup {"fetch"}
    /\ auth_failures' = 0
    /\ ExceptionHandler("source_error")
    /\ UNCHANGED << budget, client, sheet, process, cycle_calls, prior_len, client_fatal >>

\* a call to the sheet raises e before it changes anything
SinkCallFails(call, e) ==
    /\ calls' = calls \cup {call}
    /\ cycle_calls' = cycle_calls \cup {call}
    /\ auth_failures' =
           IF e = "auth" THEN Min(auth_failures + 1, default_max_retries) ELSE 0
    /\ IF e = "network"
       THEN RequestExceptionHandler("sink_network")
       ELSE APIErrorHandler(IF e = "auth" THEN "sink_auth" ELSE "sink_transient")
    /\ client_fatal' = (client_fatal \/ e = "auth")
    /\ UNCHANGED << budget, client, sheet, process, criticals, prior_len >>

\* a call to the sheet returns
SinkCallOk(call) ==
    /\ calls' = calls \cup {call}
    /\ cycle_calls' = cycle_calls \cup {call}

\* client.open_by_url(sheet_url).sheet1 (line 129)
SinkOpen ==
    /\ pc = "open"
    /\ SinkCallOk("open")
    /\ pc' = "prepare"
    /\ UNCHANGED << budget, sleep_for, client, locals, sheet, process, criticals,
                    outcome, auth_failures, prior_len, client_fatal >>

\* faulty variant: the failure of open_by_url escapes to the handler of
\* monitor_and_retry(), which counts it and backs off
SinkOpenFailsCounted ==
    /\ pc = "open"
    /\ calls' = calls \cup {"open"}
    /\ cycle_calls' = cycle_calls \cup {"open"}
    /\ outcome' = "sink_auth"
    /\ auth_failures' = Min(auth_failures + 1, default_max_retries)
    /\ client_fatal' = TRUE
    /\ retries' = retries + 1
    /\ wait_time' = BackoffWait(retries')
    /\ sleep_for' = wait_time'
    /\ data' = <<>>
    /\ rows' = <<>>
    /\ analysis_data' = <<>>
    /\ pc' = "backoff"
    /\ UNCHANGED << max_retries, client, sheet, process, criticals, prior_len >>

SinkOpenFails ==
    /\ pc = "open"
    /\ \E e \in SinkErrors : SinkCallFails("open", e)

\* the loop of lines 132-143 on quotes that have every key
PrepareRowsOk ==
    /\ pc = "prepare"
    /\ WellFormedData(data)
    /\ \E ts \in Stamps(Len(data)) : rows' = PrepareRows(data, ts)
    /\ pc' = "clear"
    /\ UNCHANGED << budget, sleep_for, client, data, analysis_data, sheet, process,
                    criticals, history >>

\* coin[...] raises KeyError on a quote that lacks a key
PrepareRowsFails ==
    /\ pc = "prepare"
    /\ ~WellFormedData(data)
    /\ auth_failures' = 0
    /\ ExceptionHandler("bad_quote")
    /\ UNCHANGED << budget, client, sheet, process, calls, cycle_calls, prior_len, client_fatal >>

\* sheet.clear() (line 146)
SheetClear ==
    /\ pc = "clear"
    /\ SinkCallOk("clear")
    /\ sheet' = Clear(sheet)
    /\ pc' = "update_raw"
    /\ UNCHANGED << budget, sleep_for, client, locals, process, criticals,
                    outcome, auth_failures, prior_len, client_fatal >>

SheetClearFails ==
    /\ pc = "clear"
    /\ \E e \in SinkErrors : SinkCallFails("clear", e)

\* sheet.update('A1:G51', rows) (line 147)
UpdateRaw ==
    /\ pc = "update_raw"
    /\ Len(rows) <= RawRangeRows
    /\ SinkCallOk("update")
    /\ sheet' = WriteRaw(sheet, rows)
    /\ pc' = "analyze"
    /\ UNCHANGED << budget, sleep_for, client, locals, process, criticals,
                    outcome, auth_failures, prior_len, client_fatal >>

UpdateRawFails ==
    /\ pc = "update_raw"
    /\ \E e \in SinkErrors : SinkCallFails("update", e)

\* lines 150-172 on a non-empty data
Analyze ==
    /\ pc = "analyze"
    /\ ~AnalysisFails(data)
    /\ analysis_data' = AnalysisData(data)
    /\ pc' = "update_summary"
    /\ UNCHANGED << budget, sleep_for, client, data, rows, sheet, process,
                    criticals, history >>

\* statistics.mean(prices) raises StatisticsError on an empty data
AnalyzeFails ==
    /\ pc = "analyze"
    /\ AnalysisFails(data)
    /\ auth_failures' = 0
    /\ ExceptionHandler("analysis_error")
    /\ UNCHANGED << budget, client, sheet, process, calls, cycle_calls, prior_len, client_fatal >>

\* sheet.update('I1:L20', analysis_data) (line 175) and the return
UpdateSummary ==
    /\ pc = "update_summary"
    /\ Len(analysis_data) <= SummaryRangeRows
    /\ SinkCallOk("update")
    /\ sheet' = WriteSummary(sheet, analysis_data)
    /\ auth_failures' = 0
    /\ Return("ok")
    /\ UNCHANGED << budget, client, process, criticals, prior_len, client_fatal >>

UpdateSummaryFails ==
    /\ pc = "update_summary"
    /\ \E e \in SinkErrors : SinkCallFails("update", e)

\* the time.sleep(60) of line 182 returns, and so does the function
RequestErrorSleepDone ==
    /\ pc = "req_wait"
    /\ sleep_for' \in SleepTimes
    /\ pc' = "sleeping"
    /\ UNCHANGED << budget, client, locals, sheet, process, criticals, history >>

\* faulty variant: the signal is only noted, and the process goes on
KeyboardInterruptOnlyNoted ==
    /\ pc # "exited"
    /\ ~stopped
    /\ stopped' = TRUE
    /\ stopped_in' = pc
    /\ UNCHANGED << pc, budget, sleep_for, client, locals, sheet, exit_code,
                    criticals, history >>

(***************************************************************************)
(* The stop signal.  KeyboardInterrupt is no Exception: no handler below   *)
(* main catches it.  Inside monitor_and_retry() it reaches line 253 and    *)
(* main returns; inside health_check() nothing catches it.  The frames of  *)
(* the functions are unwound, and their locals with them.                  *)
(***************************************************************************)
KeyboardInterrupt ==
    /\ pc # "exited"
    /\ stopped' = TRUE
    /\ stopped_in' = pc
    /\ exit_code' = IF pc = "health" THEN ExitSigint ELSE 0
    /\ sleep_for' = 0
    /\ data' = <<>>
    /\ rows' = <<>>
    /\ analysis_data' = <<>>
    /\ pc' = "exited"
    /\ UNCHANGED << budget, client, sheet, criticals, history >>

Next ==
    \/ HealthCheckPass
    \/ HealthCheckFail
    \/ SetupClient
    \/ SetupFails
    \/ BackoffDone
    \/ MaxRetriesExceeded
    \/ SleepDone
    \/ FetchOk
    \/ FetchRequestError
    \/ FetchValueError
    \/ SinkOpen
    \/ SinkOpenFails
    \/ PrepareRowsOk
    \/ PrepareRowsFails
    \/ SheetClear
    \/ SheetClearFails
    \/ UpdateRaw
    \/ UpdateRawFails
    \/ Analyze
    \/ AnalyzeFails
    \/ UpdateSummary
    \/ UpdateSummaryFails
    \/ RequestErrorSleepDone
    \/ KeyboardInterrupt

Spec == Init /\ [][Next]_vars

(***************************************************************************)
(* The same program run by an interpreter that does not halt: a sleep that *)
(* was started returns, a call that was made returns or raises (the HTTP   *)
(* request of line 123 carries timeout=10), a raised exception reaches its *)
(* handler.  The stop signal is the environment's and is under no          *)
(* fairness: it may never come.                                            *)
(***************************************************************************)
ProgramStep ==
    \/ HealthCheckPass
    \/ HealthCheckFail
    \/ SetupClient
    \/ SetupFails
    \/ BackoffDone
    \/ MaxRetriesExceeded
    \/ SleepDone
    \/ FetchOk
    \/ FetchRequestError
    \/ FetchValueError
    \/ SinkOpen
    \/ SinkOpenFails
    \/ PrepareRowsOk
    \/ PrepareRowsFails
    \/ SheetClear
    \/ SheetClearFails
    \/ UpdateRaw
    \/ UpdateRawFails
    \/ Analyze
    \/ AnalyzeFails
    \/ UpdateSummary
    \/ UpdateSummaryFails
    \/ RequestErrorSleepDone

SpecLive == Init /\ [][Next]_vars /\ WF_vars(ProgramStep)

(***************************************************************************)
(* monitor_and_retry(max_retries) on its own, for every budget up to       *)
(* MaxBudget: the runs in which setup_google_sheets_client() keeps         *)
(* failing, which are the runs that count failures and back off.           *)
(***************************************************************************)
InitRetries ==
    /\ pc = "monitor"
    /\ max_retries \in 1..MaxBudget
    /\ retries = 0
    /\ wait_time = 0
    /\ sleep_for = 0
    /\ client = "none"
    /\ data = <<>>
    /\ rows = <<>>
    /\ analysis_data = <<>>
    /\ sheet \in RenderedSheets
    /\ exit_code = -1
    /\ stopped = FALSE
    /\ stopped_in = "none"
    /\ criticals = {}
    /\ calls = {}
    /\ cycle_calls = {}
    /\ outcome = "none"
    /\ auth_failures = 0
    /\ prior_len = 0
    /\ client_fatal = FALSE

NextRetries ==
    \/ SetupFails
    \/ BackoffDone
    \/ MaxRetriesExceeded
    \/ KeyboardInterrupt

SpecRetries == InitRetries /\ [][NextRetries]_vars

(***************************************************************************)
(* One cycle of fetch_and_update_crypto_data(client) from the point where  *)
(* response.json() has returned, for every response of CycleInputs, on a   *)
(* sheet that an earlier cycle has filled.                                 *)
(***************************************************************************)
InitCycle ==
    /\ pc = "open"
    /\ max_retries = default_max_retries
    /\ retries = 0
    /\ wait_time = 0
    /\ sleep_for = 0
    /\ client = "ok"
    /\ data \in CycleInputs
    /\ rows = <<>>
    /\ analysis_data = <<>>
    /\ sheet = FullRender(PrepareRows(<<QuoteB, QuoteA>>, <<1, 1>>),
                          AnalysisData(<<QuoteB, QuoteA>>))
    /\ exit_code = -1
    /\ stopped = FALSE
    /\ stopped_in = "none"
    /\ criticals = {}
    /\ calls = {"setup", "fetch"}
    /\ cycle_calls = {}
    /\ outcome = "running"
    /\ auth_failures = 0
    /\ prior_len = Len(sheet.raw)
    /\ client_fatal = FALSE

NextCycle ==
    \/ SinkOpen
    \/ SinkOpenFails
    \/ PrepareRowsOk
    \/ PrepareRowsFails
    \/ SheetClear
    \/ SheetClearFails
    \/ UpdateRaw
    \/ UpdateRawFails
    \/ Analyze
    \/ AnalyzeFails
    \/ UpdateSummary
    \/ UpdateSummaryFails
    \/ RequestErrorSleepDone

SpecCycle == InitCycle /\ [][NextCycle]_vars

(***************************************************************************)
(* Properties.                                                             *)
(***************************************************************************)
\* the waits of the process
Waits == {"req_wait", "sleeping", "backoff"}

\* C1: once the sheet has raised an authentication error in max_retries
\* cycles in a row, no further cycle begins, and when the process has ended
\* without a stop signal, it has ended with a non-zero status and the
\* critical message of the exhausted budget.
C1_AuthErrorsExhaustBudget ==
    auth_failures >= max_retries =>
        /\ pc \in Waits \cup {"exited"}
        /\ (pc = "exited" /\ ~stopped) =>
               (exit_code # 0 /\ "max_retries" \in criticals)

\* C2: after a cycle whose fetch failed with a source error, the loop is in
\* its backoff wait, the attempt counter has been incremented and the wait
\* is min(2^attempt, cap).
C2_SourceErrorBacksOff ==
    (outcome = "source_error" /\ pc \in Waits) =>
        /\ pc = "backoff"
        /\ retries >= 1
        /\ sleep_for = BackoffWait(retries)

\* C3: whenever no cycle is in progress, the sheet holds exactly the rows and
\* the summary of one cycle: a cycle that failed has left it as it was, and
\* never cleared or partly written.
C3_SheetNeverLeftPartial ==
    outcome # "running" => sheet \in RenderedSheets

\* C4: after a fully successful cycle the attempt counter is 0.
C4_SuccessResetsAttempts ==
    outcome = "ok" => retries = 0

\* C5: every backoff wait is at least the backoff wait before it, and none
\* exceeds the cap of 600 seconds.
C5_BackoffMonotoneCapped ==
    [][pc' = "backoff" =>
          /\ sleep_for' = wait_time'
          /\ wait_time' >= wait_time
          /\ wait_time' <= BackoffCap]_vars

\* a backoff wait that the cap has cut, after an uncut one
C5_Witness ==
    /\ pc = "backoff"
    /\ wait_time = BackoffCap
    /\ retries > 2
    /\ 2 ^ retries > BackoffCap

\* C6: when the process has ended on its own after the loop had started, the
\* counted failures have reached the retry budget, and they are more than one.
C6_ExitOnlyOnExhaustedBudget ==
    (pc = "exited" /\ ~stopped /\ "preflight" \notin criticals) =>
        /\ retries >= max_retries
        /\ retries > 1
        /\ "max_retries" \in criticals

\* the process has ended on the exhausted budget
C6_Witness ==
    /\ pc = "exited"
    /\ ~stopped
    /\ "preflight" \notin criticals
    /\ retries = default_max_retries

\* C7: in a cycle whose fetch failed, no call to the sheet (open, clear or
\* update) is made.
C7_NoSinkCallAfterFetchFailure ==
    outcome = "source_error" => cycle_calls = {}

\* the fetch has failed and the loop has gone on to the next cycle's sleep
C7_Witness ==
    /\ outcome = "source_error"
    /\ pc = "sleeping"
    /\ "fetch" \in calls

\* C8: after a cycle whose snapshot was empty, so that the analysis failed,
\* the process is alive, the loop is in its backoff wait, and the cycle has
\* written nothing to the sheet.
C8_EmptySnapshotBacksOff ==
    outcome = "analysis_error" =>
        /\ ~(pc = "exited" /\ ~stopped)
        /\ pc \in Waits => pc = "backoff"
        /\ cycle_calls \cap {"clear", "update"} = {}

\* C9: the last sheet call of a successful cycle leaves the sheet holding
\* exactly that cycle's rows and summary, whatever it held before, and the
\* three sheet calls made once more on the same rows and summary leave it
\* as it is.
C9_RenderReplaces ==
    [][(pc = "update_summary" /\ outcome' = "ok") =>
          /\ sheet' = FullRender(rows, analysis_data)
          /\ Render(sheet', rows, analysis_data) = sheet']_vars

\* a successful cycle has rendered fewer rows than the sheet held before it
C9_Witness ==
    /\ outcome = "ok"
    /\ Len(sheet.raw) < prior_len
    /\ "clear" \in cycle_calls

\* C10: when the startup health check has failed, the process has ended with
\* a non-zero status, and no provider fetch, no client setup and no sheet
\* call has been made.
C10_FailedHealthCheckStartsNothing ==
    "preflight" \in criticals =>
        /\ pc = "exited"
        /\ exit_code # 0
        /\ calls = {}
        /\ client = "none"

\* the health check has failed
C10_Witness ==
    /\ "preflight" \in criticals
    /\ exit_code = ExitFailure

\* C11: the process ends with status 0 when a stop signal ended it, in
\* whichever phase the signal came, and with a non-zero status when it ended
\* on its own (failed health check or exhausted budget).
C11_ExitCodes ==
    pc = "exited" =>
        /\ stopped => exit_code = 0
        /\ ~stopped => exit_code # 0

\* C12: no step follows the end of the process, and a stop signal that comes
\* when the next fetch is about to begin or during a wait ends the process in
\* that very step: the wait is dropped, and no fetch and no sheet call is made.
C12_StopEndsWaitAtOnce ==
    [][/\ pc # "exited"
       /\ (stopped' /\ ~stopped /\ pc \in Waits \cup {"fetch"}) =>
              /\ pc' = "exited"
              /\ sleep_for' = 0
              /\ calls' = calls
              /\ cycle_calls' = cycle_calls
              /\ sheet' = sheet]_vars

\* the signal came during a backoff wait and the process has ended
C12_Witness ==
    /\ pc = "exited"
    /\ stopped_in = "backoff"
    /\ exit_code = 0

\* C13: once a sheet call of the client has raised an authentication error,
\* no later cycle makes a sheet call with that client: the client is set up
\* again first.
C13_FatalClientNotReused ==
    (client_fatal /\ outcome = "running") => cycle_calls = {}

\* the place of d[i] when d is ordered by market cap descending and quotes
\* of equal market cap keep the provider's order
RankByCap(d, i) ==
    1 + Cardinality({j \in 1..Len(d) :
            \/ d[j].market_cap > d[i].market_cap
            \/ (d[j].market_cap = d[i].market_cap /\ j < i)})

\* C14: a non-empty snapshot is analysed without an error, and the table of
\* the top quotes that the analysis builds has exactly min(5, length) rows,
\* row r being the quote that has place r when the snapshot is ordered by
\* market cap descending with equal market caps in the provider's order.
C14_TopFiveStable ==
    /\ (pc = "analyze" /\ data # <<>>) => ~AnalysisFails(data)
    /\ pc = "update_summary" =>
           LET top == SubSeq(analysis_data, 7, Len(analysis_data))
           IN  /\ Len(top) = IF Len(data) < 5 THEN Len(data) ELSE 5
               /\ \A r \in 1..Len(top) :
                      \E i \in 1..Len(data) :
                          /\ RankByCap(data, i) = r
                          /\ top[r] = << NameCell(data[i]),
                                         Text(Upper(data[i].symbol)),
                                         Num("$.2f", data[i].current_price) >>

\* six quotes have been analysed, two of equal market cap among them
C14_Witness ==
    /\ pc = "update_summary"
    /\ Len(data) = 6
    /\ data[5] = QuoteC
    /\ data[6] = QuoteA
    /\ Len(analysis_data) = 11

RECURSIVE PriceTotal(_, _, _)
\* the current prices of the quotes lo..hi of d, added up
PriceTotal(d, lo, hi) ==
    IF lo > hi THEN 0
    ELSE IF lo = hi THEN d[lo].current_price
    ELSE LET mid == (lo + hi) \div 2
         IN  PriceTotal(d, lo, mid) + PriceTotal(d, mid + 1, hi)

\* C15: the average price of an analysed snapshot is the sum of the current
\* prices of all its quotes divided by their count, the summary shows it to
\* the nearest cent, and for the 50 quotes with the prices 1, 2, ..., 50 it
\* is 25.5.
C15_AverageIsSumOverCount ==
    pc = "update_summary" =>
        LET n == Len(data)
            total == PriceTotal(data, 1, n)
            avg == Mean(prices(data))
            shown == analysis_data[2][1].v
        IN  /\ avg.num * n = total * avg.den
            /\ 2 * (shown * n - total) <= n
            /\ 2 * (total - shown * n) <= n
            /\ data = Snapshot50 => (2 * avg.num = 5100 * avg.den /\ shown = 2550)

\* the 50 quotes with the prices 1, 2, ..., 50 have been analysed
C15_Witness ==
    /\ pc = "update_summary"
    /\ data = Snapshot50
    /\ analysis_data # <<>>

\* the rows of the table of the top quotes that a sheet with raw rows shows
TopRows(sh) == IF Len(sh.raw) < 5 THEN Len(sh.raw) ELSE 5

\* C16, as claimed: after a successful cycle the summary block holds a label
\* row, then the rows of the top-5 table (name, symbol, price), then the
\* lines of the average price, the highest and the lowest 24h change.
C16_TableBeforeLines ==
    outcome = "ok" =>
        LET s == sheet.summary
            k == TopRows(sheet)
        IN  /\ Len(s) >= k + 4
            /\ Len(s[1]) = 1
            /\ \A i \in 2..(k + 1) : Len(s[i]) = 3
            /\ s[k + 2][1].t = "Average Price: $.2f"
            /\ s[k + 3][1].t = "Highest 24h Change: .2f%"
            /\ s[k + 4][1].t = "Lowest 24h Change: .2f%"

\* C16, amended: after a successful cycle the summary block holds, in this
\* order, the label row "Analysis Metrics", the lines of the average price,
\* the highest and the lowest 24h change, an empty row, the label row of the
\* top-5 table, and then the rows of that table (name, symbol, price).
C16_LinesBeforeTable ==
    outcome = "ok" =>
        LET s == sheet.summary
            k == TopRows(sheet)
        IN  /\ Len(s) = 6 + k
            /\ s[1] = << Text("Analysis Metrics") >>
            /\ Len(s[2]) = 1 /\ s[2][1].t = "Average Price: $.2f"
            /\ Len(s[3]) = 1 /\ s[3][1].t = "Highest 24h Change: .2f%"
            /\ Len(s[4]) = 1 /\ s[4][1].t = "Lowest 24h Change: .2f%"
            /\ s[5] = << Text("") >>
            /\ s[6] = << Text("Top 5 Cryptocurrencies by Market Cap:") >>
            /\ \A i \in 7..(6 + k) :
                   /\ Len(s[i]) = 3
                   /\ s[i][1] \in {sheet.raw[j][1] : j \in 1..Len(sheet.raw)}
                   /\ s[i][2] \in {sheet.raw[j][2] : j \in 1..Len(sheet.raw)}
                   /\ s[i][3].t = "$.2f"

\* a successful cycle has written a summary with a full table of five rows
C16_Witness ==
    /\ outcome = "ok"
    /\ Len(sheet.raw) > 5
    /\ Len(sheet.summary) = 11

(***************************************************************************)
(* C17.  Within a cycle no write to the sheet, clear() or update(),        *)
(* happens before the analysis of the cycle's snapshot has completed: as   *)
(* long as the cycle runs, a clear or an update that was called finds the  *)
(* analysis done.                                                          *)
(***************************************************************************)
C17_NoWriteBeforeAnalysis ==
    (outcome = "running" /\ cycle_calls \cap {"clear", "update"} # {}) =>
        analysis_data # <<>>

FailedOutcomes ==
    {"source_error", "bad_quote", "analysis_error", "sink_transient", "sink_network"}

(***************************************************************************)
(* C18.  A cycle that failed on a source error, a malformed quote, an      *)
(* analysis error or a transient sink error is eventually followed by the  *)
(* next cycle's fetch, at requests.get of line 123, unless the process was *)
(* stopped by the signal or has exited.                                    *)
(***************************************************************************)
C18_FailedCycleRetried ==
    (outcome \in FailedOutcomes /\ pc \in {"req_wait", "sleeping"})
        ~> ((pc = "fetch" /\ outcome = "running") \/ pc = "exited")

\* a cycle logged a critical failure, and the next cycle is at its fetch
C18_Witness ==
    /\ pc = "fetch"
    /\ "unexpected" \in criticals
    /\ client = "ok"
    /\ ~stopped

(***************************************************************************)
(* C19.  Once setup_google_sheets_client() has returned a client, no step  *)
(* changes retries, the 'Maximum retries exceeded' exit is never taken,    *)
(* and the only step that ends the process is the stop signal.             *)
(***************************************************************************)
C19_NoRetryAfterSetup ==
    [][client = "ok" =>
           /\ retries' = retries
           /\ pc' # "monitor"
           /\ "max_retries" \notin criticals'
           /\ (pc # "exited" /\ pc' = "exited") => (stopped' /\ exit_code' = 0)]_vars

\* a client obtained after one failed setup, then three fatal sink errors
C19_Witness ==
    /\ client = "ok"
    /\ retries >= 1
    /\ auth_failures = default_max_retries
    /\ pc = "sleeping"

\* a required key of coin is missing or null
Malformed(coin) ==
    \/ ~(RequiredKeys \subseteq DOMAIN coin)
    \/ NullKeys(coin) \cap RequiredKeys # {}

\* C20: a cycle whose response holds a malformed quote does not get past the
\* preparation of the rows: neither clear nor update is called.
C20_MalformedQuoteStopsCycle ==
    (\E i \in 1..Len(data) : Malformed(data[i])) =>
        /\ pc \in {"open", "prepare"}
        /\ cycle_calls \subseteq {"open"}

====
